---- MODULE Spec2Model ----
(***************************************************************************)
(* gibbername (src/src/lib.rs): names bound to data on a UTXO ledger.      *)
(*                                                                         *)
(* The ledger is the sequence of confirmed transactions.  A transaction's  *)
(* signature-free hash is its position in that sequence, so the hash is    *)
(* unique and get_transaction(hash) is an index into the sequence.         *)
(* Byte strings are sequences of byte values; Rust Strings are sequences   *)
(* of code points.  The bytes used are ASCII bytes, bytes 0xF8..0xFF        *)
(* (which can never start or continue a UTF-8 sequence) and the sequence   *)
(* EF BF BD (the encoding of U+FFFD); the strings are over ASCII and       *)
(* U+FFFD.                                                                 *)
(***************************************************************************)
EXTENDS Integers, Sequences, FiniteSets, Bags, TLC

VARIABLES ledger,   \* the confirmed transactions, in ledger order
          res,      \* the resolver call made last, with its result
          co,       \* the coordinator call (register, transfer_name_cmd) in progress
          calls     \* the lookup calls that run concurrently, each at its step

vars == <<ledger, res, co, calls>>

(* ------------------------------ bounds -------------------------------- *)
MaxTxs == 3         \* transactions on the ledger
BlockTxs == 2       \* transactions per block
HeightBits == 8     \* width of a block height (u64 in the source)
IndexBits == 2      \* width of a position in a block (u32 in the source)

(* --------------------------- data (melstructs) ------------------------ *)
Marker == <<103, 105, 98, 98, 101, 114, 110, 97, 109, 101, 45, 118, 49>>  \* b"gibbername-v1"
NoData == <<>>

Mel == [kind |-> "Mel", hash |-> 0]
NewCustom == [kind |-> "NewCustom", hash |-> 0]
Custom(h) == [kind |-> "Custom", hash |-> h]

(* Auxiliary data: "a", the byte 0xFF (not valid UTF-8), "b". *)
BindingSeq == <<(<<97>>), (<<255>>), (<<98>>)>>
Bindings == {BindingSeq[i] : i \in 1..Len(BindingSeq)}

CoinData(d, v, a) == [denom |-> d, value |-> v, additional_data |-> a]

hash_nosigs(tx) == tx.hash

(* The replacement character U+FFFD and its UTF-8 encoding. *)
Replacement == 65533

ReplacementBytes == <<239, 191, 189>>

RECURSIVE from_utf8_lossy(_)
from_utf8_lossy(bytes) ==
  IF bytes = <<>> THEN <<>>
  ELSE IF Head(bytes) < 128 THEN <<Head(bytes)>> \o from_utf8_lossy(Tail(bytes))
  ELSE IF Len(bytes) >= 3 /\ SubSeq(bytes, 1, 3) = ReplacementBytes
       THEN <<Replacement>> \o from_utf8_lossy(SubSeq(bytes, 4, Len(bytes)))
  ELSE <<Replacement>> \o from_utf8_lossy(Tail(bytes))

RECURSIVE as_bytes(_)
as_bytes(str) ==
  IF str = <<>> THEN <<>>
  ELSE (IF Head(str) < 128 THEN <<Head(str)>> ELSE ReplacementBytes)
         \o as_bytes(Tail(str))

(* ------------------------------ results ------------------------------- *)
Ok(v) == [ok |-> TRUE, val |-> v, err |-> "none"]
Err(e) == [ok |-> FALSE, val |-> <<>>, err |-> e]

(* Option<T> of the source: None, or Some(x). *)
None == [some |-> FALSE, x |-> 0]
Some(v) == [some |-> TRUE, x |-> v]

(* ------------------------- ledger client (melprot) -------------------- *)
(* Block h holds the transactions (h-1)*BlockTxs+1 .. h*BlockTxs of the    *)
(* ledger, in hash order; positions in a block count from 0.               *)
HeightOf(k) == ((k - 1) \div BlockTxs) + 1
PosnOf(k) == (k - 1) % BlockTxs
TipHeight(L) == IF L = <<>> THEN 0 ELSE HeightOf(Len(L))

(* client.snapshot(height): fails beyond the tip. *)
SnapshotExists(L, height) == height >= 1 /\ height <= TipHeight(L)

(* snapshot.get_transaction_by_posn(index): the hash at that position. *)
get_transaction_by_posn(L, height, index) ==
  LET k == (height - 1) * BlockTxs + index + 1
  IN  IF index >= 0 /\ index < BlockTxs /\ k <= Len(L) THEN Some(k) ELSE None

(* snapshot.get_transaction(txhash) *)
get_transaction(L, txhash) ==
  IF txhash \in 1..Len(L) THEN Some(L[txhash]) ELSE None

(* iter().position(p) and iter().find(p) over the outputs, for a predicate  *)
(* p that accepts the denominations in denoms; positions count from 0.     *)
Matching(outs, denoms) == {i \in 1..Len(outs) : outs[i].denom \in denoms}
Min(S) == CHOOSE m \in S : \A n \in S : m <= n
Max(S) == CHOOSE m \in S : \A n \in S : m >= n
Position(outs, denoms) ==
  IF Matching(outs, denoms) = {} THEN None
  ELSE Some(Min(Matching(outs, denoms)) - 1)
Find(outs, denoms) ==
  IF Matching(outs, denoms) = {} THEN None
  ELSE Some(outs[Min(Matching(outs, denoms))])

(* The transaction spending coin (txhash, index), if any: 0 when unspent. *)
CoinID(h, i) == [txhash |-> h, index |-> i]
Spenders(L, coin) == {k \in 1..Len(L) : coin \in L[k].inputs}
Spender(L, coin) == IF Spenders(L, coin) = {} THEN 0 ELSE Min(Spenders(L, coin))

(* client.traverse_fwd(height, txhash, f): from the transaction txhash,    *)
(* f picks the output to follow; the transaction spending that coin is    *)
(* yielded and becomes the next one; ends when f picks nothing or the     *)
(* coin is unspent.  f is given as the function k |-> f(L[k]).            *)
RECURSIVE traverse_fwd(_, _, _)
traverse_fwd(L, cur, f) ==
  LET idx == f[cur]
  IN  IF ~idx.some THEN <<>>
      ELSE LET sp == Spender(L, CoinID(cur, idx.x))
           IN  IF sp = 0 THEN <<>>
               ELSE <<L[sp]>> \o traverse_fwd(L, sp, f)

(* ------------------------------ resolver ------------------------------ *)
(* A gibbername is modelled by the pair of u128 that gibbercode::decode   *)
(* yields for it; decode_gibbername narrows the pair to (u64, u32).       *)
(* The codec itself is external: gibbercode::encode(a, b) is taken to be  *)
(* a string that gibbercode::decode maps back to (a, b).                  *)
(* The widths are scaled down: HeightBits stands for 64, IndexBits for 32. *)
TwoToHeightBits == 2 ^ HeightBits
TwoToIndexBits == 2 ^ IndexBits
Gibbername(h, i) == <<h, i>>
(* Mutant: the height is narrowed to the width of an index. *)
decode_gibbername_narrow(gname) == <<gname[1] % TwoToIndexBits, gname[2] % TwoToIndexBits>>

decode_gibbername(gname) == <<gname[1] % TwoToHeightBits, gname[2] % TwoToIndexBits>>
encode_gibbername(height, index) == Gibbername(height, index)

(* get_and_validate_start_tx: Ok(<<height, txhash>>) or the failure. *)
NewOutputs(tx) == SelectSeq(tx.outputs, LAMBDA o : o.denom = NewCustom)
(* Mutant: the value of the sole NewCustom output is not checked. *)
get_and_validate_start_tx_any_value(L, gibbername) ==
  LET hi == decode_gibbername(gibbername)
      height == hi[1]
      index == hi[2]
  IN  IF ~SnapshotExists(L, height) THEN Err("Io")
      ELSE LET txhash == get_transaction_by_posn(L, height, index)
           IN  IF ~txhash.some THEN Err("NotFound")
               ELSE LET tx == get_transaction(L, txhash.x).x
                    IN  IF tx.data # Marker THEN Err("BadMarker")
                        ELSE IF Len(NewOutputs(tx)) = 1
                             THEN Ok(<<height, hash_nosigs(tx)>>)
                             ELSE Err("BadOutputs")

get_and_validate_start_tx(L, gibbername) ==
  LET hi == decode_gibbername(gibbername)
      height == hi[1]
      index == hi[2]
  IN  IF ~SnapshotExists(L, height) THEN Err("Io")
      ELSE LET txhash == get_transaction_by_posn(L, height, index)
           IN  IF ~txhash.some THEN Err("NotFound")
               ELSE LET tx == get_transaction(L, txhash.x).x
                        new_outputs == NewOutputs(tx)
                    IN  IF tx.data # Marker THEN Err("BadMarker")
                        ELSE IF Len(new_outputs) = 1 /\ new_outputs[1].value = 1
                             THEN Ok(<<height, hash_nosigs(tx)>>)
                             ELSE Err("BadOutputs")

(* The closure handed to traverse_fwd (the same text in both traversals). *)
match_output(tx, start_txhash) ==
  Position(tx.outputs,
           (IF hash_nosigs(tx) = start_txhash THEN {NewCustom} ELSE {})
           \cup {Custom(start_txhash)})

Traversal(L, start_txhash) ==
  traverse_fwd(L, start_txhash,
               [k \in 1..Len(L) |-> match_output(L[k], start_txhash)])

(* Mutant: the first output of the genesis transaction, whatever its
   denomination. *)
genesis_coin_any_denom(L, start_txhash) ==
  LET tx == get_transaction(L, start_txhash)
  IN  IF ~tx.some THEN Err("NoTransaction")
      ELSE Ok(tx.x.outputs[1])

(* The coin of the genesis transaction: its first NewCustom output. *)
genesis_coin(L, start_txhash) ==
  LET tx == get_transaction(L, start_txhash)
  IN  IF ~tx.some THEN Err("NoTransaction")
      ELSE LET coin == Find(tx.x.outputs, {NewCustom})
           IN  IF coin.some THEN Ok(coin.x) ELSE Err("NoGibbercoin")

(* Mutant: the last output by position of the matching denomination. *)
last_coin_by_last_position(last_tx, start_txhash) ==
  LET S == Matching(last_tx.outputs, {Custom(start_txhash)})
  IN  IF S = {} THEN None ELSE Some(last_tx.outputs[Max(S)])

(* Mutant: a newly minted output of the last transaction is also taken. *)
last_coin_or_new(last_tx, start_txhash) ==
  Find(last_tx.outputs, {Custom(start_txhash), NewCustom})

(* The coin selected in the last traversed transaction. *)
last_coin(last_tx, start_txhash) ==
  Find(last_tx.outputs, {Custom(start_txhash)})

traverse_catena_chain(L, start_txhash) ==
  LET traversal == Traversal(L, start_txhash)
  IN  IF traversal = <<>> THEN genesis_coin(L, start_txhash)
      ELSE LET c == last_coin(traversal[Len(traversal)], start_txhash)
           IN  IF c.some THEN Ok(c.x) ELSE Err("Deleted")

(* The coin selected in each traversed transaction of the whole history. *)
history_coin(tx, start_txhash) ==
  Find(tx.outputs, {Custom(start_txhash), NewCustom})

(* map(...).collect::<Result<Vec<_>>>(): the coins, or the first failure. *)
collect_history(traversal, start_txhash) ==
  IF \E i \in 1..Len(traversal) : ~history_coin(traversal[i], start_txhash).some
  THEN Err("BrokenChain")
  ELSE Ok([i \in 1..Len(traversal) |-> history_coin(traversal[i], start_txhash).x])

(* traverse_catena_chain_whole_history after the traversal (lines         *)
(* 126-158): the genesis coin, then the coin of each traversed            *)
(* transaction.                                                           *)
whole_history_of(L, start_txhash, traversal) ==
  LET first == genesis_coin(L, start_txhash)
      lala == collect_history(traversal, start_txhash)
  IN  IF ~first.ok THEN first
      ELSE IF ~lala.ok THEN lala
      ELSE Ok(<<first.val>> \o lala.val)

traverse_catena_chain_whole_history(L, start_txhash) ==
  whole_history_of(L, start_txhash, Traversal(L, start_txhash))

(* lookup and lookup_whole_history: the record of one call.  start is    *)
(* the outcome of get_and_validate_start_tx, traversed tells whether the  *)
(* traversal was started, out is what the caller gets.                    *)
Call(start, traversed, out) == [start |-> start, traversed |-> traversed, out |-> out]

lookup(L, gibbername) ==
  LET start == get_and_validate_start_tx(L, gibbername)
  IN  IF ~start.ok THEN Call(start, FALSE, start)
      ELSE LET last == traverse_catena_chain(L, start.val[2])
           IN  IF ~last.ok THEN Call(start, TRUE, last)
               ELSE Call(start, TRUE, Ok(from_utf8_lossy(last.val.additional_data)))

lookup_whole_history(L, gibbername) ==
  LET start == get_and_validate_start_tx(L, gibbername)
  IN  IF ~start.ok THEN Call(start, FALSE, start)
      ELSE LET all_coins == traverse_catena_chain_whole_history(L, start.val[2])
           IN  IF ~all_coins.ok THEN Call(start, TRUE, all_coins)
               ELSE Call(start, TRUE,
                         Ok([i \in 1..Len(all_coins.val) |->
                               from_utf8_lossy(all_coins.val[i].additional_data)]))

(* ----------------------------- coordinators --------------------------- *)
(* client.stream_transactions_from(height, address): the transactions of  *)
(* the blocks from height on, in order, each with its height; the place   *)
(* in the ledger of its first item.  Every transaction of the model       *)
(* affects the watched address.                                           *)
stream_start(height) == IF height <= 1 THEN 1 ELSE (height - 1) * BlockTxs + 1

(* current_block().abbreviate().txhashes of the block at height, in order *)
block_txhashes(L, height) ==
  SelectSeq([k \in 1..Len(L) |-> hash_nosigs(L[k])],
            LAMBDA h : HeightOf(h) = height)

(* Mutant: the position is taken to be that of the first transaction. *)
block_position_first(L, height, txhash) == Some(0)

(* enumerate().find(|(_, hash)| **hash == txhash): the position from 0 *)
block_position(L, height, txhash) ==
  LET hs == block_txhashes(L, height)
      S == {i \in 1..Len(hs) : hs[i] = txhash}
  IN  IF S = {} THEN None ELSE Some(Min(S) - 1)

(* register, the body of the loop for the feed item (L[k], HeightOf(k)):  *)
(* Some(gibbername) when the call returns on it, None when it is skipped. *)
register_item(L, k) ==
  IF L[k].data = Marker
  THEN Some(encode_gibbername(HeightOf(k),
              block_position(L, HeightOf(k), hash_nosigs(L[k])).x % TwoToIndexBits))
  ELSE None

(* register_name_cmd: what the instruction asks the wallet to send. *)
register_name_cmd(initial_binding) ==
  [denom |-> NewCustom, additional_data |-> as_bytes(initial_binding), data |-> Marker]

(* Mutant: a coordinate that holds no transaction is not refused. *)
transfer_prepare_unchecked(L, gibbername, new_binding) ==
  LET hi == decode_gibbername(gibbername)
      txhash == get_transaction_by_posn(L, hi[1], hi[2])
  IN  Ok([denom |-> Custom(txhash.x),
          additional_data |-> as_bytes(new_binding), data |-> NoData])

(* transfer_name_cmd up to the instruction: Ok(the instruction) or the    *)
(* failure.                                                               *)
transfer_prepare(L, gibbername, new_binding) ==
  LET hi == decode_gibbername(gibbername)
  IN  IF ~SnapshotExists(L, hi[1]) THEN Err("Io")
      ELSE LET txhash == get_transaction_by_posn(L, hi[1], hi[2])
           IN  IF ~txhash.some THEN Err("NotFound")
               ELSE Ok([denom |-> Custom(txhash.x),
                        additional_data |-> as_bytes(new_binding), data |-> NoData])

(* transfer_name_cmd, the test of the loop for the feed item L[k]. *)
transfer_item(L, k, new_binding) ==
  \E i \in 1..Len(L[k].outputs) :
     from_utf8_lossy(L[k].outputs[i].additional_data) = new_binding

(* --------------------------- the ledger grows ------------------------- *)
(* A transaction has one or two outputs and spends at most one coin of a  *)
(* name.  The coins of a name are the NewCustom output of a transaction h *)
(* that is a well-formed registration and the outputs of denomination     *)
(* Custom(h): an output of denomination Custom(h) can only be created by  *)
(* spending a coin of that denomination, which is the denomination the    *)
(* ledger gives to the NewCustom output of transaction h.  Coins of the   *)
(* base denomination and of other custom tokens are not tracked: no       *)
(* traversal follows them.  A transaction that spends a coin carries no   *)
(* data; one that does not is a registration attempt, with the marker     *)
(* (well formed or not) or without it.  The auxiliary data of the outputs *)
(* are taken in turn from BindingSeq, so that the outputs of one          *)
(* transaction, and those of successive transactions, differ.             *)
Kinds == {"Mel", "New", "Cus"}
Shapes == {<<k>> : k \in Kinds} \cup {<<k, l>> : k, l \in Kinds}

IsCoin(L, c) == c.txhash \in 1..Len(L) /\ c.index + 1 \in 1..Len(L[c.txhash].outputs)
CoinOf(L, c) == L[c.txhash].outputs[c.index + 1]
CoinIDs(L) == {c \in {CoinID(k, i) : k \in 1..Len(L), i \in {0, 1}} : IsCoin(L, c)}
ChainOf(L, c) ==
  IF CoinOf(L, c).denom = NewCustom THEN c.txhash ELSE CoinOf(L, c).denom.hash
Registration(tx) ==
  /\ tx.data = Marker
  /\ Len(NewOutputs(tx)) = 1
  /\ NewOutputs(tx)[1].value = 1
Unspent(L) ==
  {c \in CoinIDs(L) : /\ CoinOf(L, c).denom # Mel
                      /\ Registration(L[ChainOf(L, c)])
                      /\ Spenders(L, c) = {}}

NonMel(sh, i) == Cardinality({j \in 1..i : sh[j] # "Mel"})
BindingAt(t, sh, i) ==
  IF sh[i] = "Mel" THEN <<>>
  ELSE BindingSeq[((t + NonMel(sh, i) - 2) % Len(BindingSeq)) + 1]

MakeOutputs(t, sh, v, chain) ==
  [i \in 1..Len(sh) |->
     CoinData(IF sh[i] = "Mel" THEN Mel
              ELSE IF sh[i] = "New" THEN NewCustom ELSE Custom(chain),
              IF sh[i] = "New" THEN v ELSE 1,
              BindingAt(t, sh, i))]

MakeTx(L, data, inputs, sh, v) ==
  [hash |-> Len(L) + 1, data |-> data, inputs |-> inputs,
   outputs |-> MakeOutputs(Len(L) + 1, sh, v,
                 IF inputs = {} THEN 0 ELSE ChainOf(L, CHOOSE c \in inputs : TRUE))]

HasKind(sh, k) == \E i \in 1..Len(sh) : sh[i] = k

Candidates(L) ==
  {MakeTx(L, Marker, {}, sh, 1) : sh \in {s \in Shapes : ~HasKind(s, "Cus")}}
  \cup {MakeTx(L, Marker, {}, <<"New">>, 2), MakeTx(L, NoData, {}, <<"New">>, 1)}
  \cup {MakeTx(L, NoData, {c}, sh, 1) : c \in Unspent(L), sh \in Shapes}

Names ==
  {Gibbername(h, i) : h \in 1..HeightOf(MaxTxs), i \in 0..(BlockTxs - 1)}

Idle == [op |-> "none", name |-> <<>>, call |-> Call(Err("none"), FALSE, Err("none"))]

(* The strings a caller passes as a binding. *)
Strings == {from_utf8_lossy(b) : b \in Bindings}

(* A coordinator call: op and its arguments (binding, and name for a      *)
(* transfer), pc (idle, watching, returned, failed, panicked), the        *)
(* instruction printed, the first and the next feed item (places in the   *)
(* ledger), whether the feed can still deliver, the value returned, and   *)
(* for a transfer the history of the name when the call was made.         *)
CoIdle ==
  [op |-> "none", pc |-> "idle", name |-> <<>>, binding |-> <<>>, cmd |-> Err("none"),
   start |-> 0, cursor |-> 0, open |-> TRUE, out |-> Err("none"), prev |-> Err("none")]

(* No lookup call runs: the name looked up, and the bag of the calls'    *)
(* local states.                                                         *)
NoCalls == [name |-> <<>>, procs |-> EmptyBag]

Init ==
  /\ ledger = <<>>
  /\ res = Idle
  /\ co = CoIdle
  /\ calls = NoCalls

(* A transaction is confirmed on the ledger: between calls, and while a   *)
(* coordinator waits on its feed.  An outcome held by a caller is that of *)
(* the ledger as it stands, and concurrent lookups run against a ledger   *)
(* fixed at one height.                                                   *)
AddTx ==
  /\ res = Idle
  /\ calls = NoCalls
  /\ co.pc \in {"idle", "watching"}
  /\ Len(ledger) < MaxTxs
  /\ \E tx \in Candidates(ledger) : ledger' = Append(ledger, tx)
  /\ UNCHANGED <<res, co, calls>>

(* lookup(client, gibbername) *)
Lookup ==
  /\ res = Idle
  /\ \E g \in Names :
        res' = [op |-> "lookup", name |-> g, call |-> lookup(ledger, g)]
  /\ UNCHANGED <<ledger, co, calls>>

(* lookup_whole_history(client, gibbername) *)
LookupWholeHistory ==
  /\ res = Idle
  /\ \E g \in Names :
        res' = [op |-> "lookup_whole_history", name |-> g,
                call |-> lookup_whole_history(ledger, g)]
  /\ UNCHANGED <<ledger, co, calls>>

(* The caller takes the result. *)
Return ==
  /\ res # Idle
  /\ res' = Idle
  /\ UNCHANGED <<ledger, co, calls>>

(* The sequences a forward traversal from transaction h can yield when   *)
(* nothing is assumed of the rule by which the primitive continues:      *)
(* confirmed transactions after h, in ledger order.                      *)
RECURSIVE ForwardSeqs(_, _)
ForwardSeqs(L, h) ==
  {<<>>} \cup UNION {{<<L[k]>> \o t : t \in ForwardSeqs(L, k)} : k \in (h + 1)..Len(L)}

(* lookup_whole_history on what a traversal primitive yields whose       *)
(* continuation rule need not agree with the resolver's.                 *)
LookupWholeHistoryOf ==
  /\ res = Idle
  /\ \E g \in Names :
        LET start == get_and_validate_start_tx(ledger, g)
        IN  /\ start.ok
            /\ \E t \in ForwardSeqs(ledger, start.val[2]) :
                  LET all_coins == whole_history_of(ledger, start.val[2], t)
                  IN  res' = [op |-> "whole_history_of", name |-> g, traversal |-> t,
                              call |-> Call(start, TRUE,
                                 IF ~all_coins.ok THEN all_coins
                                 ELSE Ok([i \in 1..Len(all_coins.val) |->
                                       from_utf8_lossy(all_coins.val[i].additional_data)]))]
  /\ UNCHANGED <<ledger, co, calls>>

(* register, to the creation of the stream (lines 224-229) *)
RegisterCall ==
  /\ co.pc = "idle"
  /\ \E b \in Strings :
        co' = [CoIdle EXCEPT !.op = "register", !.pc = "watching", !.binding = b,
                             !.cmd = Ok(register_name_cmd(b)),
                             !.start = stream_start(TipHeight(ledger)),
                             !.cursor = stream_start(TipHeight(ledger))]
  /\ UNCHANGED <<ledger, res, calls>>

(* register, one turn of the loop: stream.next() yields an item *)
RegisterNext ==
  /\ co.op = "register" /\ co.pc = "watching"
  /\ co.cursor <= Len(ledger)
  /\ LET r == register_item(ledger, co.cursor)
     IN  co' = IF r.some THEN [co EXCEPT !.pc = "returned", !.out = Ok(r.x)]
               ELSE [co EXCEPT !.cursor = co.cursor + 1]
  /\ UNCHANGED <<ledger, res, calls>>

(* transfer_name_cmd, to the creation of the stream (lines 259-283) *)
TransferCall ==
  /\ co.pc = "idle"
  /\ \E g \in Names, b \in Strings :
        LET cmd == transfer_prepare(ledger, g, b)
        IN  co' = IF cmd.ok
                  THEN [CoIdle EXCEPT !.op = "transfer", !.pc = "watching", !.name = g,
                                      !.binding = b, !.cmd = cmd,
                                      !.start = stream_start(TipHeight(ledger)),
                                      !.cursor = stream_start(TipHeight(ledger)),
                                      !.prev = lookup_whole_history(ledger, g).out]
                  ELSE [CoIdle EXCEPT !.op = "transfer", !.pc = "failed", !.name = g,
                                      !.binding = b, !.out = cmd]
  /\ UNCHANGED <<ledger, res, calls>>

(* transfer_name_cmd, one turn of the loop: stream.next() yields an item *)
TransferNext ==
  /\ co.op = "transfer" /\ co.pc = "watching"
  /\ co.cursor <= Len(ledger)
  /\ co' = IF transfer_item(ledger, co.cursor, co.binding)
            THEN [co EXCEPT !.pc = "returned", !.out = Ok(<<>>)]
            ELSE [co EXCEPT !.cursor = co.cursor + 1]
  /\ UNCHANGED <<ledger, res, calls>>

(* The feed of the call ends: it delivers what is confirmed so far and    *)
(* then nothing.                                                          *)
FeedEnds ==
  /\ co.pc = "watching" /\ co.open
  /\ co' = [co EXCEPT !.open = FALSE]
  /\ UNCHANGED <<ledger, res, calls>>

(* stream.next() yields None: the loop is left and unreachable!() is      *)
(* reached (lines 249 and 298), which panics.                             *)
FeedExhausted ==
  /\ co.pc = "watching" /\ ~co.open
  /\ co.cursor > Len(ledger)
  /\ co' = [co EXCEPT !.pc = "panicked"]
  /\ UNCHANGED <<ledger, res, calls>>

(* The caller takes the outcome of the coordinator call. *)
Done ==
  /\ co.pc \in {"returned", "failed", "panicked"}
  /\ co' = CoIdle
  /\ UNCHANGED <<ledger, res, calls>>

(* Strings that are not gibbernames.  gibbercode::decode returns a pair   *)
(* of u128 and no Result (line 7): on such a string it either aborts     *)
(* (panics) or yields some pair, and decode_gibbername wraps what it     *)
(* yields in Ok (line 8).  Both outcomes are taken.                      *)
Malformed == {"", "?!"}
DecodeOutcomes ==
  {[aborts |-> TRUE, pair |-> <<>>]} \cup {[aborts |-> FALSE, pair |-> g] : g \in Names}
Aborted == Call(Err("none"), FALSE, Err("panic"))

(* lookup(client, gibbername) on a string that is not a gibbername *)
LookupMalformed ==
  /\ res = Idle /\ co.pc = "idle"
  /\ \E s \in Malformed, o \in DecodeOutcomes :
        res' = [op |-> "lookup", name |-> s,
                call |-> IF o.aborts THEN Aborted ELSE lookup(ledger, o.pair)]
  /\ UNCHANGED <<ledger, co, calls>>

(* lookup_whole_history(client, gibbername) on such a string *)
LookupWholeHistoryMalformed ==
  /\ res = Idle /\ co.pc = "idle"
  /\ \E s \in Malformed, o \in DecodeOutcomes :
        res' = [op |-> "lookup_whole_history", name |-> s,
                call |-> IF o.aborts THEN Aborted
                         ELSE lookup_whole_history(ledger, o.pair)]
  /\ UNCHANGED <<ledger, co, calls>>

(* transfer_name_cmd on such a string, to the creation of the stream *)
TransferMalformed ==
  /\ co.pc = "idle" /\ res = Idle
  /\ \E s \in Malformed, o \in DecodeOutcomes, b \in Strings :
        LET cmd == transfer_prepare(ledger, o.pair, b)
        IN  co' = IF o.aborts
                  THEN [CoIdle EXCEPT !.op = "transfer", !.pc = "panicked", !.name = s,
                                      !.binding = b]
                  ELSE IF cmd.ok
                  THEN [CoIdle EXCEPT !.op = "transfer", !.pc = "watching", !.name = s,
                                      !.binding = b, !.cmd = cmd,
                                      !.start = stream_start(TipHeight(ledger)),
                                      !.cursor = stream_start(TipHeight(ledger))]
                  ELSE [CoIdle EXCEPT !.op = "transfer", !.pc = "failed", !.name = s,
                                      !.binding = b, !.out = cmd]
  /\ UNCHANGED <<ledger, res, calls>>

(* The codec on its own: a coordinate is drawn, encoded, and the name is *)
(* decoded.                                                              *)
Heights == 0..(TwoToHeightBits - 1)
Indices == 0..(TwoToIndexBits - 1)

InitCodec ==
  /\ ledger = <<>>
  /\ co = CoIdle
  /\ calls = NoCalls
  /\ res \in {[op |-> "coordinate", height |-> h, index |-> i,
               name |-> <<>>, decoded |-> <<>>] : h \in Heights, i \in Indices}

(* encode_gibbername(height, index) *)
Encode ==
  /\ res.op = "coordinate"
  /\ res' = [res EXCEPT !.op = "encoded",
                        !.name = encode_gibbername(res.height, res.index)]
  /\ UNCHANGED <<ledger, co, calls>>

(* decode_gibbername(gname) of the name obtained *)
Decode ==
  /\ res.op = "encoded"
  /\ res' = [res EXCEPT !.op = "decoded", !.decoded = decode_gibbername(res.name)]
  /\ UNCHANGED <<ledger, co, calls>>

(* ------------------------- concurrent lookups ------------------------- *)
(* lookup as the sequence of its requests to the ledger client, each one *)
(* a step: snapshot(height), get_transaction_by_posn(index),             *)
(* get_transaction(txhash) with the validation, one step of traverse_fwd *)
(* per transaction visited, and for an empty traversal the reading of    *)
(* the genesis transaction.  The local state of a call: its step, the    *)
(* decoded coordinate, the hash found there, the chain id, the           *)
(* transaction the traversal is at, the last transaction it yielded (0   *)
(* when none), and the outcome.                                          *)
Callers == {"first", "second"}

lookup_begin(gibbername) ==
  [pc |-> "snapshot",
   height |-> decode_gibbername(gibbername)[1],
   index |-> decode_gibbername(gibbername)[2],
   txhash |-> 0, start |-> 0, cur |-> 0, last |-> 0, out |-> Err("none")]

lookup_end(s, out) == [s EXCEPT !.pc = "done", !.out = out]

(* Mutant: the last transaction yielded is kept in a place that the     *)
(* calls share, where a call that is behind has left its own.           *)
traversal_last_shared(s) ==
  Min({q.last : q \in {r \in BagToSet(calls.procs) : r.last # 0}})

(* traversal.last() *)
traversal_last(s) == s.last

lookup_step(L, s) ==
  CASE s.pc = "snapshot" ->
         IF ~SnapshotExists(L, s.height) THEN lookup_end(s, Err("Io"))
         ELSE [s EXCEPT !.pc = "by_posn"]
    [] s.pc = "by_posn" ->
         LET txhash == get_transaction_by_posn(L, s.height, s.index)
         IN  IF ~txhash.some THEN lookup_end(s, Err("NotFound"))
             ELSE [s EXCEPT !.pc = "get_tx", !.txhash = txhash.x]
    [] s.pc = "get_tx" ->
         LET tx == get_transaction(L, s.txhash).x
             new_outputs == NewOutputs(tx)
         IN  IF tx.data # Marker THEN lookup_end(s, Err("BadMarker"))
             ELSE IF Len(new_outputs) = 1 /\ new_outputs[1].value = 1
                  THEN [s EXCEPT !.pc = "traverse", !.start = hash_nosigs(tx),
                                 !.cur = hash_nosigs(tx)]
                  ELSE lookup_end(s, Err("BadOutputs"))
    [] s.pc = "traverse" ->
         LET idx == match_output(L[s.cur], s.start)
             sp == IF idx.some THEN Spender(L, CoinID(s.cur, idx.x)) ELSE 0
         IN  IF sp # 0 THEN [s EXCEPT !.cur = sp, !.last = sp]
             ELSE IF s.last = 0 THEN [s EXCEPT !.pc = "genesis"]
             ELSE LET c == last_coin(L[traversal_last(s)], s.start)
                  IN  IF c.some
                      THEN lookup_end(s, Ok(from_utf8_lossy(c.x.additional_data)))
                      ELSE lookup_end(s, Err("Deleted"))
    [] s.pc = "genesis" ->
         LET coin == genesis_coin(L, s.start)
         IN  IF coin.ok THEN lookup_end(s, Ok(from_utf8_lossy(coin.val.additional_data)))
             ELSE lookup_end(s, coin)

(* The callers call lookup on the same name at the same time. *)
StartLookups ==
  /\ calls = NoCalls /\ res = Idle /\ co.pc = "idle"
  /\ \E g \in Names :
        calls' = [name |-> g,
                  procs |-> [s \in {lookup_begin(g)} |-> Cardinality(Callers)]]
  /\ UNCHANGED <<ledger, res, co>>

(* One of the calls gets the answer to its request and goes on. *)
LookupStep ==
  /\ \E s \in BagToSet(calls.procs) :
        /\ s.pc # "done"
        /\ calls' = [calls EXCEPT !.procs =
                       (@ (-) SetToBag({s})) (+) SetToBag({lookup_step(ledger, s)})]
  /\ UNCHANGED <<ledger, res, co>>

(* All the calls have returned. *)
LookupsReturn ==
  /\ calls # NoCalls
  /\ \A s \in BagToSet(calls.procs) : s.pc = "done"
  /\ calls' = NoCalls
  /\ UNCHANGED <<ledger, res, co>>

Next == AddTx \/ Lookup \/ LookupWholeHistory \/ Return

Spec == Init /\ [][Next]_vars

NextCoord ==
  \/ AddTx
  \/ RegisterCall \/ RegisterNext
  \/ TransferCall \/ TransferNext
  \/ FeedEnds \/ FeedExhausted \/ Done

SpecCoord == Init /\ [][NextCoord]_vars

(* The ledger, and whole-history queries over any forward traversal. *)
NextHistory == AddTx \/ LookupWholeHistoryOf \/ Return

SpecHistory == Init /\ [][NextHistory]_vars

(* The ledger and register calls alone. *)
NextRegister ==
  \/ AddTx
  \/ RegisterCall \/ RegisterNext
  \/ FeedEnds \/ FeedExhausted \/ Done

SpecRegister == Init /\ [][NextRegister]_vars

(* The ledger, and calls that are given a string that is no gibbername,  *)
(* one call at a time.                                                   *)
NextMalformed ==
  \/ AddTx
  \/ LookupMalformed \/ LookupWholeHistoryMalformed \/ Return
  \/ TransferMalformed \/ TransferNext
  \/ FeedEnds \/ FeedExhausted \/ Done

SpecMalformed == Init /\ [][NextMalformed]_vars

(* The ledger and transfer_name_cmd calls on a feed that does not end. *)
NextTransfer ==
  \/ AddTx
  \/ TransferCall \/ TransferNext
  \/ Done

SpecTransfer == Init /\ [][NextTransfer]_vars

(* The codec alone. *)
NextCodec == Encode \/ Decode

SpecCodec == InitCodec /\ [][NextCodec]_vars

(* The ledger, and lookups of one name that run concurrently. *)
NextConcurrent == AddTx \/ StartLookups \/ LookupStep \/ LookupsReturn

SpecConcurrent == Init /\ [][NextConcurrent]_vars

(* ======================= properties of the resolver ==================== *)
(* What a name denotes on the ledger, stated without the resolver.         *)
TxAt(L, g) ==
  LET S == {k \in 1..Len(L) : HeightOf(k) = g[1] /\ PosnOf(k) = g[2]}
  IN  IF S = {} THEN 0 ELSE CHOOSE k \in S : TRUE
OutputsOf(tx, d) == {i \in 1..Len(tx.outputs) : tx.outputs[i].denom = d}
ValidGenesis(L, g) ==
  /\ TxAt(L, g) # 0
  /\ L[TxAt(L, g)].data = Marker
  /\ Cardinality(OutputsOf(L[TxAt(L, g)], NewCustom)) = 1
  /\ \A i \in OutputsOf(L[TxAt(L, g)], NewCustom) : L[TxAt(L, g)].outputs[i].value = 1
GenesisAux(L, g) ==
  L[TxAt(L, g)].outputs[Min(OutputsOf(L[TxAt(L, g)], NewCustom))].additional_data
Links(L, g) == Traversal(L, TxAt(L, g))
HasCustom(tx, h) == OutputsOf(tx, Custom(h)) # {}
FirstCustomAux(tx, h) == tx.outputs[Min(OutputsOf(tx, Custom(h)))].additional_data
LastLink(L, g) == Links(L, g)[Len(Links(L, g))]

IsLookup == res.op = "lookup"
IsHistory == res.op = "lookup_whole_history"
Out == res.call.out

(* The case of C1: a lookup of a valid name whose chain has links, the    *)
(* last of which has an output of denomination Custom(CustodyChainID).    *)
C1_Case ==
  /\ IsLookup
  /\ ValidGenesis(ledger, res.name)
  /\ Len(Links(ledger, res.name)) >= 1
  /\ HasCustom(LastLink(ledger, res.name), TxAt(ledger, res.name))

C2_Case ==
  /\ IsHistory
  /\ ValidGenesis(ledger, res.name)
  /\ \A k \in 1..Len(Links(ledger, res.name)) :
        HasCustom(Links(ledger, res.name)[k], TxAt(ledger, res.name))

(* C2: lookup_whole_history of a chain with N links, all with a           *)
(* Custom(CustodyChainID) output, returns N+1 elements: the genesis       *)
(* output's auxiliary data, then for each link k the auxiliary data of    *)
(* its first output of denomination Custom(CustodyChainID), in chain      *)
(* order.  The strings are compared with the decoded auxiliary data, so   *)
(* that the statement is about which outputs are selected.                *)
C2_Claim ==
  C2_Case =>
    /\ Out.ok
    /\ Len(Out.val) = Len(Links(ledger, res.name)) + 1
    /\ Out.val[1] = from_utf8_lossy(GenesisAux(ledger, res.name))
    /\ \A k \in 1..Len(Links(ledger, res.name)) :
          Out.val[k + 1] =
            from_utf8_lossy(FirstCustomAux(Links(ledger, res.name)[k],
                                           TxAt(ledger, res.name)))

(* The case of C3: a valid name whose coin was never spent. *)
C3_Case ==
  /\ IsLookup \/ IsHistory
  /\ ValidGenesis(ledger, res.name)
  /\ Links(ledger, res.name) = <<>>

C4_Case ==
  /\ IsLookup \/ IsHistory
  /\ ValidGenesis(ledger, res.name)
  /\ Len(Links(ledger, res.name)) >= 1
  /\ ~HasCustom(LastLink(ledger, res.name), TxAt(ledger, res.name))

(* C4: when the last traversed transaction has no output of denomination  *)
(* Custom(CustodyChainID), lookup and lookup_whole_history both fail with *)
(* Deleted.                                                               *)
C4_Claim == C4_Case => Out = Err("Deleted")

(* The part of C4 that holds: lookup fails with Deleted. *)
C4_Lookup == (C4_Case /\ IsLookup) => Out = Err("Deleted")

ValidationErrors == {"Io", "NotFound", "BadMarker", "BadOutputs"}

(* C5: genesis validation succeeds exactly when a transaction exists at   *)
(* the decoded coordinate, its data is the marker and it has exactly one  *)
(* NewCustom output, of value 1; otherwise both queries fail without      *)
(* traversing; on success the chain id is the transaction's hash_nosigs.  *)
C5_Validation ==
  (IsLookup \/ IsHistory) =>
    /\ res.call.start.ok <=> ValidGenesis(ledger, res.name)
    /\ ~ValidGenesis(ledger, res.name) =>
          /\ ~Out.ok
          /\ Out.err \in ValidationErrors
          /\ ~res.call.traversed
    /\ ValidGenesis(ledger, res.name) =>
          /\ res.call.traversed
          /\ res.call.start.val =
                <<res.name[1], hash_nosigs(ledger[TxAt(ledger, res.name)])>>
C5_Reached ==
  /\ IsHistory
  /\ TxAt(ledger, res.name) # 0
  /\ ledger[TxAt(ledger, res.name)].data = Marker
  /\ Cardinality(OutputsOf(ledger[TxAt(ledger, res.name)], NewCustom)) = 1
  /\ ~ValidGenesis(ledger, res.name)
  /\ Out = Err("BadOutputs")

C6_NoNewCustom ==
  (/\ res.op = "whole_history_of"
   /\ \E k \in 1..(Len(res.traversal) - 1) :
         /\ ~HasCustom(res.traversal[k], TxAt(ledger, res.name))
         /\ OutputsOf(res.traversal[k], NewCustom) = {})
  => Out = Err("BrokenChain")

(* ===================== properties of the coordinators ================== *)
RegisterReturned == co.op = "register" /\ co.pc = "returned"
TransferReturned == co.op = "transfer" /\ co.pc = "returned"

(* C7: when register returns a gibbername g, the transaction at decode(g) *)
(* passes genesis validation and lookup(g) returns initial_binding,       *)
(* whatever the feed delivered.                                           *)
C7_Claim ==
  RegisterReturned =>
    /\ get_and_validate_start_tx(ledger, co.out.val).ok
    /\ lookup(ledger, co.out.val).out = Ok(co.binding)

(* C8: when transfer_name_cmd returns Ok for a registered name g, lookup  *)
(* of g returns new_binding and the whole history of g is the history at  *)
(* the time of the call with new_binding appended.                        *)
C8_Claim ==
  (TransferReturned /\ co.prev.ok) =>
    /\ lookup(ledger, co.name).out = Ok(co.binding)
    /\ lookup_whole_history(ledger, co.name).out = Ok(Append(co.prev.val, co.binding))

(* The feed of the call has ended with no matching item, and the call is  *)
(* over.                                                                  *)
FeedEndedUnmatched ==
  /\ co.op \in {"register", "transfer"}
  /\ ~co.open
  /\ co.cursor > Len(ledger)
  /\ co.pc # "watching"

(* C9: when the feed consumed by register or transfer_name_cmd ends with  *)
(* no matching transaction, the call returns the FeedExhausted failure as *)
(* an error value; it does not crash.                                     *)
C9_Claim ==
  FeedEndedUnmatched => (co.pc = "failed" /\ co.out = Err("FeedExhausted"))

(* The feed items of the register call in progress that carry the marker. *)
MarkerItems == {k \in co.start..Len(ledger) : ledger[k].data = Marker}

(* C10: register returns only on the first feed item whose data is the    *)
(* marker, skipping the items before it, and returns encode(height, p)    *)
(* for the height of that item and the position p of its hash in the      *)
(* block at that height; while it waits, no item it has passed carries    *)
(* the marker.                                                            *)
C10_Register ==
  /\ RegisterReturned =>
        /\ MarkerItems # {}
        /\ co.cursor = Min(MarkerItems)
        /\ co.out = Ok(encode_gibbername(HeightOf(Min(MarkerItems)),
                                         PosnOf(Min(MarkerItems))))
  /\ (co.op = "register" /\ co.pc = "watching") =>
        \A k \in co.start..(co.cursor - 1) : k <= Len(ledger) /\ ledger[k].data # Marker
C10_Reached ==
  /\ RegisterReturned
  /\ co.cursor > co.start
  /\ PosnOf(co.cursor) = 1

(* The feed items of the transfer call that the loop has passed over, and *)
(* whether item k has an output whose auxiliary data is, byte for byte,   *)
(* the new binding of the call.                                           *)
ExactMatch(k) ==
  \E i \in 1..Len(ledger[k].outputs) :
     ledger[k].outputs[i].additional_data = as_bytes(co.binding)

(* C11: transfer_name_cmd reports success only on a feed item that has an *)
(* output whose auxiliary data is exactly, byte for byte, the new         *)
(* binding, and every item it passes over has no such output: distinct    *)
(* byte strings are never taken for equal.                                *)
C11_Claim ==
  /\ TransferReturned => ExactMatch(co.cursor)
  /\ (co.op = "transfer" /\ co.pc \in {"watching", "returned"}) =>
        \A k \in co.start..(co.cursor - 1) : ~ExactMatch(k)

(* C12: given a malformed identifier, lookup, lookup_whole_history and    *)
(* transfer_name_cmd fail with the InvalidIdentifier error value, before  *)
(* any access to the ledger: the string is not decoded to a coordinate    *)
(* and resolved, and the call does not abort.                             *)
C12_Claim ==
  /\ (res.op \in {"lookup", "lookup_whole_history"} /\ res.name \in Malformed) =>
        /\ Out = Err("InvalidIdentifier")
        /\ ~res.call.traversed
  /\ (co.op = "transfer" /\ co.name \in Malformed) =>
        /\ co.pc = "failed"
        /\ co.out = Err("InvalidIdentifier")

(* The failures that tell that no transaction is at the coordinate: the  *)
(* block is beyond the ledger's tip, or it has no such position.         *)
NoTransactionErrors == {"Io", "NotFound"}

lol == Gibbername(216, 2)

C15_AsAlone ==
  \A s \in BagToSet(calls.procs) :
     s.pc = "done" => s.out = lookup(ledger, calls.name).out

IsDeleted(L, g) ==
  /\ ValidGenesis(L, g)
  /\ Len(Links(L, g)) >= 1
  /\ ~HasCustom(LastLink(L, g), TxAt(L, g))

(* C16: deletion is permanent.  Once the chain of a name contains a link *)
(* that does not re-mint Custom(CustodyChainID), it does so in every     *)
(* later state of the ledger, whatever is appended, and every lookup of  *)
(* the name made in such a state fails with Deleted.                     *)
C16_Permanent ==
  /\ []((IsLookup /\ IsDeleted(ledger, res.name)) => Out = Err("Deleted"))
  /\ [][ledger' # ledger =>
          \A g \in Names : IsDeleted(ledger, g) => IsDeleted(ledger', g)]_vars
C16_Reached ==
  /\ IsLookup
  /\ IsDeleted(ledger, res.name)
  /\ Out = Err("Deleted")
  /\ Len(ledger) > hash_nosigs(LastLink(ledger, res.name))
  /\ \E i \in 1..Len(ledger[Len(ledger)].outputs) :
        ledger[Len(ledger)].outputs[i].denom # Mel

(* The output of a traversed transaction that the closure handed to the  *)
(* traversal primitive picks: the one whose spend the traversal follows. *)
Followed(tx, start_txhash) ==
  IF match_output(tx, start_txhash).some
  THEN Some(tx.outputs[match_output(tx, start_txhash).x + 1])
  ELSE None

(* C17: tie-break consistency.  In every traversed transaction, the      *)
(* output that lookup_whole_history selects, and the one that lookup     *)
(* selects in the last of them, is the output that the match predicate   *)
(* handed to the traversal picks: the first of denomination              *)
(* Custom(CustodyChainID), a NewCustom output counting only in the       *)
(* genesis transaction.                                                  *)
C17_Claim ==
  ((IsLookup \/ IsHistory) /\ ValidGenesis(ledger, res.name)) =>
    \A k \in 1..Len(Links(ledger, res.name)) :
       LET tx == Links(ledger, res.name)[k]
           id == TxAt(ledger, res.name)
       IN  /\ IsHistory => history_coin(tx, id) = Followed(tx, id)
           /\ (IsLookup /\ k = Len(Links(ledger, res.name))) =>
                 last_coin(tx, id) = Followed(tx, id)

(* The part of C17 that holds: the selection made by lookup. *)
C17_Lookup ==
  (IsLookup /\ ValidGenesis(ledger, res.name) /\ Len(Links(ledger, res.name)) >= 1) =>
    last_coin(LastLink(ledger, res.name), TxAt(ledger, res.name)) =
      Followed(LastLink(ledger, res.name), TxAt(ledger, res.name))

(* The two queries agree on the outcomes l of lookup and h of            *)
(* lookup_whole_history for one name on one ledger.                      *)
Agree(l, h) ==
  /\ l.ok <=> h.ok
  /\ l.ok => l.val = h.val[Len(h.val)]

(* C18: for every name and every ledger, lookup succeeds exactly when    *)
(* lookup_whole_history succeeds, and the binding it returns is then the *)
(* last element of the history.                                          *)
C18_Claim ==
  /\ IsLookup => Agree(Out, lookup_whole_history(ledger, res.name).out)
  /\ IsHistory => Agree(lookup(ledger, res.name).out, Out)

====
